---------------------------- MODULE Spec2Model ----------------------------
(***************************************************************************)
(* OCPP-J playground: charge point sessions (client/client.py) driven by   *)
(* the scenario runner (client/scenario_runner.py) against the permissive  *)
(* central system (server/server.py).                                      *)
(*                                                                         *)
(* The call/response correlation (self.call, cp.start()) is not part of    *)
(* the three source files: it is inherited from the imported base class    *)
(* CpBase.  It is modelled here after sections 4.2, 5 and 7 of the         *)
(* specification (SendCall, OnFrameReceived, Expire, FailAllPending).      *)
(* Everything else is a translation of the Python source.                  *)
(***************************************************************************)
EXTENDS Integers, Sequences, FiniteSets, TLC

\* ------------------------------------------------------------------ bounds
\* scenario steps executed in total, over all charge points
MaxSteps == 3
\* Heartbeat Calls sent in total
MaxBeats == 1
\* Calls that end in a timeout or a CallError, in total
MaxFaults == 1
\* the same three bounds when two charge points run (SpecTwo)
TwoSteps == 2
TwoBeats == 1
TwoFaults == 1
\* the same three bounds for the behaviours checked under fairness (FairSpec)
FairSteps == 2
FairBeats == 1
FairFaults == 1

\* ------------------------------------------------------- program constants
\* client.py:25  current_transaction_id: int | None = None
None == -1
\* client.py:24  self.heartbeat_interval = 10
DefaultInterval == 10
\* server.py:32  interval=10
BootInterval == 10
\* server.py:79  transaction_id = 1
FixedTransactionId == 1
\* client.py:93  meter_start=0
MeterStart == 0
\* scenario_runner.py:61  step.get("meterStop", 100)
DefaultMeterStop == 100

CPs == {"CP_1", "CP_2"}
\* scenario inputs
Connectors == {1}
IdTags == {"TAG1"}
Statuses == {"Available", "Charging"}
SampleLists == {<<>>, <<10>>, <<10, 20>>}
\* the BootNotification response of a central system: status and interval (seconds)
RegistrationStatuses == {"Accepted", "Rejected"}
Intervals == {0, 1, 10}

\* the seven actions the server routes (server.py @on decorators)
Actions == {"BootNotification", "Heartbeat", "StatusNotification", "Authorize",
            "StartTransaction", "MeterValues", "StopTransaction"}

\* owner of a pending Call: the scenario runner's task, or heartbeat task i >= 1
RunnerTask == 0

VARIABLES
    heartbeat_interval,       \* [cp] ChargePoint.heartbeat_interval
    current_transaction_id,   \* [cp] ChargePoint.current_transaction_id
    rpc,                      \* [cp] where run_scenario is
    op,                       \* [cp] the operation the current / last step runs
    nsteps,                   \* [cp] steps of the script run so far
    steplog,                  \* [cp] the last step that returned normally (<<>> at first)
    hb,                       \* [cp] the heartbeat_loop tasks created so far
    listener,                 \* [cp] listener_task (cp.start())
    ws,                       \* [cp] the websocket connection
    srv,                      \* [cp] the server's on_connect handler
    pending,                  \* [cp] the engine's pending Calls
    nextUid,                  \* [cp] next fresh unique id
    delivered,                \* [cp][uid] outcomes delivered for that Call
    toServer,                 \* [cp] frames in flight, client -> server
    toClient,                 \* [cp] frames in flight, server -> client
    bootState,                \* [cp] status: NotBooted / Pending / Accepted / Rejected;
                              \*      accepted: Accepted responses received so far;
                              \*      interval: the interval the last of them carried
    issued,                   \* transactionIds the server has issued, in order
    stepsLeft,                \* scenario steps still to run, over all charge points
    beatsLeft,                \* Heartbeat Calls still to send
    faultsLeft                \* timeouts and CallErrors still to happen

vars == <<heartbeat_interval, current_transaction_id, rpc, op, nsteps, steplog,
          hb, listener, ws, srv, pending, nextUid, delivered, toServer,
          toClient, bootState, issued, stepsLeft, beatsLeft, faultsLeft>>

\* ----------------------------------------------------------------- helpers
\* an outcome as its caller sees it: kind; the unique id and the action of the
\* response (of the Call itself for a timeout); waiter: the unique id of the Call
\* resolved
NoGot == [kind |-> "none", uid |-> 0, action |-> "none", waiter |-> 0]

NoOp == [action |-> "none", connector |-> 0, values |-> <<>>, i |-> 0,
         uid |-> 0, txAtStart |-> None, sent |-> <<>>, got |-> NoGot,
         gots |-> <<>>, afterActiveStop |-> FALSE]

\* a Call frame [2, uniqueId, action, payload]
CallFrame(uid, action, payload) ==
    [uid |-> uid, action |-> action, payload |-> payload]

\* request payloads (client.py)
BootPayload == [chargePointModel |-> "MyTestModel", chargePointVendor |-> "MyStartup"]
HeartbeatPayload == [none |-> TRUE]
StatusPayload(c, s) == [connectorId |-> c, errorCode |-> "NoError", status |-> s]
AuthorizePayload(t) == [idTag |-> t]
StartPayload(c, t) == [connectorId |-> c, idTag |-> t, meterStart |-> MeterStart]
MeterPayload(c, tx, v) == [connectorId |-> c, transactionId |-> tx, value |-> v]
StopPayload(tx, m) == [transactionId |-> tx, meterStop |-> m]


\* ------------------------------------------------------ server (server.py)
\* response payloads of the handlers of CentralSystemChargePoint
on_boot_notification(p) == [status |-> "Accepted", interval |-> BootInterval]
on_heartbeat(p) == [currentTime |-> TRUE]
on_status_notification(p) == [empty |-> TRUE]
on_authorize(p) == [status |-> "Accepted"]
\* (mutant) a StartTransaction is rejected once the server has started one before
on_start_transaction_once(p) ==
    [transactionId |-> FixedTransactionId,
     status |-> IF issued = <<>> THEN "Accepted" ELSE "ConcurrentTx"]
on_start_transaction(p) == [transactionId |-> FixedTransactionId, status |-> "Accepted"]
on_meter_values(p) == [empty |-> TRUE]
on_stop_transaction(p) == [status |-> "Accepted"]

\* the @on(Action.x) routing table
Route(action, p) ==
    CASE action = "BootNotification"   -> on_boot_notification(p)
      [] action = "Heartbeat"          -> on_heartbeat(p)
      [] action = "StatusNotification" -> on_status_notification(p)
      [] action = "Authorize"          -> on_authorize(p)
      [] action = "StartTransaction"   -> on_start_transaction(p)
      [] action = "MeterValues"        -> on_meter_values(p)
      [] action = "StopTransaction"    -> on_stop_transaction(p)

\* a CallResult [3, uniqueId, payload] / CallError [4, uniqueId, code, ...];
\* "action" remembers which Call the frame answers (not on the wire)
ResultFrame(call) ==
    [type |-> "CallResult", uid |-> call.uid, action |-> call.action,
     payload |-> Route(call.action, call.payload)]
ErrorFrame(call) ==
    [type |-> "CallError", uid |-> call.uid, action |-> call.action,
     payload |-> [errorCode |-> "InternalError"]]

\* ------------------------------- correlation engine (spec 4.2, 5 and 7)
\* sendCall: a fresh unique id
FreshUid(cp) == nextUid[cp]

\* (mutant) a response resolves a PendingCall whatever its unique id
MatchAny(pend, uid) == pend

\* onFrameReceived: the PendingCalls a response with unique id uid resolves
Match(pend, uid) == {e \in pend : e.uid = uid}

\* (mutant) the entry stays in the map after its outcome was delivered
PendingKept(pend, e) == pend

\* the pending map after entry e was resolved or expired: the entry is removed
PendingAfterResolve(pend, e) == pend \ {e}

\* How an outcome reaches the awaiting coroutine (await self.call(req)).
\* A result returns the response object; a timeout or a closed connection
\* raises.  A CallError either raises (spec 4.2: the handle fails with
\* CallError) or, with the base class's default of suppressing CallErrors,
\* is logged and makes call() return None.
Surfacings(kind) ==
    CASE kind = "result"  -> {"return"}
      [] kind = "error"   -> {"raise", "returnNone"}
      [] kind = "timeout" -> {"raise"}
      [] kind = "closed"  -> {"raise"}

\* sendCall on connection cp by task owner: records a PendingCall and transmits
\* the frame.  pend and dlv are cp's pending map and delivery counts to start from.
SendCall(cp, owner, action, payload, pend, dlv) ==
    /\ pending' = [pending EXCEPT ![cp] =
                     pend \cup {[uid |-> FreshUid(cp), action |-> action, owner |-> owner]}]
    /\ nextUid' = [nextUid EXCEPT ![cp] = @ + 1]
    /\ delivered' = [delivered EXCEPT ![cp] = Append(dlv, 0)]
    /\ toServer' = [toServer EXCEPT ![cp] = Append(@, CallFrame(FreshUid(cp), action, payload))]

NoSend(cp, pend, dlv) ==
    /\ pending' = [pending EXCEPT ![cp] = pend]
    /\ delivered' = [delivered EXCEPT ![cp] = dlv]
    /\ UNCHANGED <<nextUid, toServer>>


\* ------------------------------------------- charge point session (client.py)
\* what the scenario runner remembers of a step that returned normally
StepRecord(cp, action, ncalls, txAfter) ==
    [action |-> action, calls |-> ncalls,
     txBefore |-> current_transaction_id[cp], txAfter |-> txAfter]

LogStep(cp, rec) ==
    steplog' = [steplog EXCEPT ![cp] =
                  <<rec>>]

\* a new heartbeat_loop task: it starts in asyncio.sleep(self.heartbeat_interval)
NewHeartbeatTask(interval) ==
    [pc |-> "sleep", sleep |-> interval, uid |-> 0, got |-> NoGot]

\* send_boot_notification, line 41: the interval kept from the response
IntervalFromResponse(resp) == resp.interval

\* the exception of the awaited call (or of the statement after it) leaves the
\* operation and run_scenario's loop: nothing after the await runs
RunnerRaise(cp, o, pend, dlv) ==
    /\ rpc' = [rpc EXCEPT ![cp] = "failed"]
    /\ op' = [op EXCEPT ![cp] = o]
    /\ UNCHANGED <<current_transaction_id, heartbeat_interval, hb, bootState, steplog>>
    /\ NoSend(cp, pend, dlv)

\* send_boot_notification after the await (lines 37-44); response None has no .status
AfterBoot(cp, o, how, resp, pend, dlv) ==
    IF how = "returnNone" THEN RunnerRaise(cp, o, pend, dlv)
    ELSE /\ IF resp.status = "Accepted"
            THEN /\ heartbeat_interval' = [heartbeat_interval EXCEPT ![cp] = IntervalFromResponse(resp)]
                 /\ hb' = [hb EXCEPT ![cp] = Append(@, NewHeartbeatTask(IntervalFromResponse(resp)))]
                 /\ bootState' = [bootState EXCEPT ![cp] =
                                    [status |-> "Accepted", accepted |-> @.accepted + 1,
                                     interval |-> resp.interval]]
            ELSE /\ bootState' = [bootState EXCEPT ![cp].status = "Rejected"]
                 /\ UNCHANGED <<heartbeat_interval, hb>>
         /\ rpc' = [rpc EXCEPT ![cp] = "idle"]
         /\ op' = [op EXCEPT ![cp] = o]
         /\ LogStep(cp, StepRecord(cp, o.action, Len(o.sent), current_transaction_id[cp]))
         /\ UNCHANGED current_transaction_id
         /\ NoSend(cp, pend, dlv)

\* (mutant) setStatus and authorize forget the transaction
AfterPlainClears(cp, o, how, resp, pend, dlv) ==
    /\ rpc' = [rpc EXCEPT ![cp] = "idle"]
    /\ op' = [op EXCEPT ![cp] = o]
    /\ LogStep(cp, StepRecord(cp, o.action, Len(o.sent), None))
    /\ current_transaction_id' = [current_transaction_id EXCEPT ![cp] = None]
    /\ UNCHANGED <<heartbeat_interval, hb, bootState>>
    /\ NoSend(cp, pend, dlv)

\* send_status_notification (line 73) and send_authorize (lines 81-82) after the await
AfterPlain(cp, o, how, resp, pend, dlv) ==
    /\ rpc' = [rpc EXCEPT ![cp] = "idle"]
    /\ op' = [op EXCEPT ![cp] = o]
    /\ LogStep(cp, StepRecord(cp, o.action, Len(o.sent), current_transaction_id[cp]))
    /\ UNCHANGED <<current_transaction_id, heartbeat_interval, hb, bootState>>
    /\ NoSend(cp, pend, dlv)

\* send_start_transaction, line 103: the transaction id stored
StoredTransactionId(resp) == resp.transactionId

\* send_start_transaction after the await (lines 101-106); None has no .transaction_id
AfterStart(cp, o, how, resp, pend, dlv) ==
    IF how = "returnNone" THEN RunnerRaise(cp, o, pend, dlv)
    ELSE /\ current_transaction_id' = [current_transaction_id EXCEPT ![cp] = StoredTransactionId(resp)]
         /\ rpc' = [rpc EXCEPT ![cp] = "idle"]
         /\ op' = [op EXCEPT ![cp] = o]
         /\ LogStep(cp, StepRecord(cp, o.action, Len(o.sent), StoredTransactionId(resp)))
         /\ UNCHANGED <<heartbeat_interval, hb, bootState>>
         /\ NoSend(cp, pend, dlv)

\* send_meter_values: the Call of sample i of the for loop (lines 121-131)
SendSample(cp, o, i, pend, dlv) ==
    LET payload == MeterPayload(o.connector, current_transaction_id[cp], o.values[i])
    IN /\ op' = [op EXCEPT ![cp] = [o EXCEPT !.i = i, !.uid = FreshUid(cp),
                                             !.sent = Append(@, payload)]]
       /\ SendCall(cp, RunnerTask, "MeterValues", payload, pend, dlv)

\* (mutant) the loop stops one sample early
MoreSamplesOffByOne(values, i) == i + 1 < Len(values)

\* send_meter_values, line 120: the for loop has a sample left after sample i
MoreSamples(values, i) == i < Len(values)

\* send_meter_values after an await (line 132): the next sample, or the end
AfterMeter(cp, o, how, resp, pend, dlv) ==
    IF MoreSamples(o.values, o.i)
    THEN /\ SendSample(cp, o, o.i + 1, pend, dlv)
         /\ UNCHANGED <<rpc, current_transaction_id, heartbeat_interval, hb,
                        bootState, steplog>>
    ELSE /\ rpc' = [rpc EXCEPT ![cp] = "idle"]
         /\ op' = [op EXCEPT ![cp] = o]
         /\ LogStep(cp, StepRecord(cp, o.action, Len(o.sent), current_transaction_id[cp]))
         /\ UNCHANGED <<current_transaction_id, heartbeat_interval, hb, bootState>>
         /\ NoSend(cp, pend, dlv)

\* (mutant) the transaction id is not cleared
TransactionKeptAfterStop(tx) == tx

\* send_stop_transaction, line 154: self.current_transaction_id = None
TransactionAfterStop(tx) == None

\* send_stop_transaction after the await (lines 152-154)
AfterStop(cp, o, how, resp, pend, dlv) ==
    /\ current_transaction_id' = [current_transaction_id EXCEPT ![cp] = TransactionAfterStop(@)]
    /\ rpc' = [rpc EXCEPT ![cp] = "idle"]
    /\ op' = [op EXCEPT ![cp] = o]
    /\ LogStep(cp, StepRecord(cp, o.action, Len(o.sent),
                               TransactionAfterStop(current_transaction_id[cp])))
    /\ UNCHANGED <<heartbeat_interval, hb, bootState>>
    /\ NoSend(cp, pend, dlv)

\* the runner's coroutine resumes from "await self.call(req)" with outcome got
RunnerResume(cp, got, how, resp, pend, dlv) ==
    LET o == [op[cp] EXCEPT !.got = got, !.gots = Append(@, got.kind)]
    IN IF ~(rpc[cp] = "await" /\ op[cp].uid = got.waiter)
       THEN /\ UNCHANGED <<rpc, op, current_transaction_id, heartbeat_interval,
                           hb, bootState, steplog>>
            /\ NoSend(cp, pend, dlv)
       ELSE IF how = "raise" THEN RunnerRaise(cp, o, pend, dlv)
       ELSE CASE o.action = "BootNotification"   -> AfterBoot(cp, o, how, resp, pend, dlv)
              [] o.action = "StatusNotification" -> AfterPlain(cp, o, how, resp, pend, dlv)
              [] o.action = "Authorize"          -> AfterPlain(cp, o, how, resp, pend, dlv)
              [] o.action = "StartTransaction"   -> AfterStart(cp, o, how, resp, pend, dlv)
              [] o.action = "MeterValues"        -> AfterMeter(cp, o, how, resp, pend, dlv)
              [] o.action = "StopTransaction"    -> AfterStop(cp, o, how, resp, pend, dlv)

\* heartbeat_loop after "await self.call(req)" (lines 51-52, back to line 48):
\* no try/except, so an exception ends the task
HeartbeatAfterCall(task, how, got, interval) ==
    IF how = "raise"
    THEN [task EXCEPT !.pc = "dead", !.got = got]
    ELSE [task EXCEPT !.pc = "sleep", !.sleep = interval, !.got = got]

HbResume(cp, i, got, how, pend, dlv) ==
    /\ hb' = [hb EXCEPT ![cp][i] =
                IF @.pc = "await" /\ @.uid = got.waiter
                THEN HeartbeatAfterCall(@, how, got, heartbeat_interval[cp])
                ELSE @]
    /\ UNCHANGED <<rpc, op, current_transaction_id, heartbeat_interval, bootState, steplog>>
    /\ NoSend(cp, pend, dlv)

\* the engine resolves PendingCall e with an outcome: the entry is removed and
\* the waiter resumes.  frame is what the outcome carries: its kind, the unique
\* id and action of the response (or of the Call itself for a timeout).
Deliver(cp, e, how, got, resp) ==
    LET pend == PendingAfterResolve(pending[cp], e)
        dlv == [delivered[cp] EXCEPT ![e.uid] = @ + 1]
        g == [got EXCEPT !.waiter = e.uid]
    IN IF e.owner = RunnerTask
       THEN RunnerResume(cp, g, how, resp, pend, dlv)
       ELSE HbResume(cp, e.owner, g, how, pend, dlv)


\* the step before this one was a stop_transaction that found a transaction active
AfterActiveStop(cp) ==
    /\ steplog[cp] # <<>>
    /\ steplog[cp][1].action = "StopTransaction"
    /\ steplog[cp][1].txBefore # None

\* an operation of the session sends its (first) Call and awaits it
StartOp(cp, action, connector, values, payload) ==
    /\ op' = [op EXCEPT ![cp] =
                [action |-> action, connector |-> connector, values |-> values,
                 i |-> IF values = <<>> THEN 0 ELSE 1, uid |-> FreshUid(cp),
                 txAtStart |-> current_transaction_id[cp], sent |-> <<payload>>,
                 got |-> NoGot, gots |-> <<>>,
                 afterActiveStop |-> AfterActiveStop(cp)]]
    /\ rpc' = [rpc EXCEPT ![cp] = "await"]
    /\ SendCall(cp, RunnerTask, action, payload, pending[cp], delivered[cp])

\* an operation that returns without sending anything
SkipOp(cp, action, connector, values) ==
    /\ op' = [op EXCEPT ![cp] =
                [NoOp EXCEPT !.action = action, !.connector = connector,
                             !.values = values,
                             !.txAtStart = current_transaction_id[cp],
                             !.afterActiveStop = AfterActiveStop(cp)]]
    /\ LogStep(cp, StepRecord(cp, action, 0, current_transaction_id[cp]))
    /\ UNCHANGED <<rpc, pending, nextUid, delivered, toServer>>

\* (mutant) the loop takes its next step without awaiting the operation
CanStepWithoutAwait(cp) == rpc[cp] \in {"idle", "await"} /\ stepsLeft > 0

\* run_scenario takes the next step of the script (the for loop, line 30)
CanStep(cp) == rpc[cp] = "idle" /\ stepsLeft > 0

Stepped(cp) ==
    /\ nsteps' = [nsteps EXCEPT ![cp] = @ + 1]
    /\ stepsLeft' = stepsLeft - 1

Others == <<listener, ws, srv, toClient, issued, beatsLeft, faultsLeft>>

\* (mutant) the heartbeat task is created when the BootNotification is sent
StepBootEager(cp) ==
    /\ CanStep(cp) /\ Stepped(cp)
    /\ StartOp(cp, "BootNotification", 0, <<>>, BootPayload)
    /\ bootState' = [bootState EXCEPT ![cp].status = "Pending"]
    /\ hb' = [hb EXCEPT ![cp] = Append(@, NewHeartbeatTask(heartbeat_interval[cp]))]
    /\ UNCHANGED <<current_transaction_id, heartbeat_interval, steplog>>
    /\ UNCHANGED Others

\* action "boot": send_boot_notification up to its await (lines 30-36)
StepBoot(cp) ==
    /\ CanStep(cp) /\ Stepped(cp)
    /\ StartOp(cp, "BootNotification", 0, <<>>, BootPayload)
    /\ bootState' = [bootState EXCEPT ![cp].status = "Pending"]
    /\ UNCHANGED <<current_transaction_id, heartbeat_interval, hb, steplog>>
    /\ UNCHANGED Others

\* action "wait": asyncio.sleep(seconds) (lines 36-39)
StepWait(cp) ==
    /\ CanStep(cp) /\ Stepped(cp)
    /\ SkipOp(cp, "wait", 0, <<>>)
    /\ UNCHANGED <<current_transaction_id, heartbeat_interval, hb, bootState>>
    /\ UNCHANGED Others

\* action "status": send_status_notification up to its await (lines 62-72)
StepStatus(cp) ==
    /\ CanStep(cp) /\ Stepped(cp)
    /\ \E c \in Connectors, st \in Statuses :
          StartOp(cp, "StatusNotification", c, <<>>, StatusPayload(c, st))
    /\ UNCHANGED <<current_transaction_id, heartbeat_interval, hb, bootState, steplog>>
    /\ UNCHANGED Others

\* action "authorize": send_authorize up to its await (lines 78-80)
StepAuthorize(cp) ==
    /\ CanStep(cp) /\ Stepped(cp)
    /\ \E t \in IdTags : StartOp(cp, "Authorize", 0, <<>>, AuthorizePayload(t))
    /\ UNCHANGED <<current_transaction_id, heartbeat_interval, hb, bootState, steplog>>
    /\ UNCHANGED Others

\* (mutant) start_transaction returns without a Call while a transaction is active
StepStartGuarded(cp) ==
    /\ CanStep(cp) /\ Stepped(cp)
    /\ IF current_transaction_id[cp] # None
       THEN SkipOp(cp, "StartTransaction", 0, <<>>)
       ELSE /\ \E c \in Connectors, t \in IdTags :
                  StartOp(cp, "StartTransaction", c, <<>>, StartPayload(c, t))
            /\ UNCHANGED steplog
    /\ UNCHANGED <<current_transaction_id, heartbeat_interval, hb, bootState>>
    /\ UNCHANGED Others

\* action "start_transaction": send_start_transaction up to its await (lines 90-100)
StepStartTransaction(cp) ==
    /\ CanStep(cp) /\ Stepped(cp)
    /\ \E c \in Connectors, t \in IdTags :
          StartOp(cp, "StartTransaction", c, <<>>, StartPayload(c, t))
    /\ UNCHANGED <<current_transaction_id, heartbeat_interval, hb, bootState, steplog>>
    /\ UNCHANGED Others

\* (mutant) the check for an active transaction is missing
SkipsOnlyEmpty(tx, values) == values = <<>>

\* send_meter_values returns without a Call: no transaction (lines 115-118), or
\* a for loop over no sample (line 120)
SkipsMeterValues(tx, values) == tx = None \/ values = <<>>

\* send_stop_transaction returns without a Call: no transaction (lines 137-140)
SkipsStopTransaction(tx) == tx = None

\* action "meter_values": send_meter_values up to its first await (lines 115-131)
StepMeterValues(cp) ==
    /\ CanStep(cp) /\ Stepped(cp)
    /\ \E c \in Connectors, values \in SampleLists :
          IF SkipsMeterValues(current_transaction_id[cp], values)
          THEN SkipOp(cp, "MeterValues", c, values)
          ELSE /\ StartOp(cp, "MeterValues", c, values,
                          MeterPayload(c, current_transaction_id[cp], values[1]))
               /\ UNCHANGED steplog
    /\ UNCHANGED <<current_transaction_id, heartbeat_interval, hb, bootState>>
    /\ UNCHANGED Others

\* action "stop_transaction": send_stop_transaction up to its await (lines 137-151)
StepStopTransaction(cp) ==
    /\ CanStep(cp) /\ Stepped(cp)
    /\ IF SkipsStopTransaction(current_transaction_id[cp])
       THEN SkipOp(cp, "StopTransaction", 0, <<>>)
       ELSE /\ StartOp(cp, "StopTransaction", 0, <<>>,
                       StopPayload(current_transaction_id[cp], DefaultMeterStop))
            /\ UNCHANGED steplog
    /\ UNCHANGED <<current_transaction_id, heartbeat_interval, hb, bootState>>
    /\ UNCHANGED Others

\* an action the runner does not know: a warning, then the next step (lines 68-69)
StepUnknown(cp) ==
    /\ CanStep(cp) /\ Stepped(cp)
    /\ SkipOp(cp, "unknown", 0, <<>>)
    /\ UNCHANGED <<current_transaction_id, heartbeat_interval, hb, bootState>>
    /\ UNCHANGED Others

\* the end of the loop, by an "exit" step (lines 64-66) or by the end of the
\* script: listener_task.cancel() (line 71)
ScriptEnd(cp) ==
    /\ rpc[cp] = "idle"
    /\ rpc' = [rpc EXCEPT ![cp] = "closing"]
    /\ listener' = [listener EXCEPT ![cp] = "cancelled"]
    /\ UNCHANGED <<heartbeat_interval, current_transaction_id, op, nsteps, steplog,
                   hb, ws, srv, pending, nextUid, delivered, toServer, toClient,
                   bootState, issued, stepsLeft, beatsLeft, faultsLeft>>


\* heartbeat_loop: asyncio.sleep returns and the Heartbeat Call is sent (lines 48-51)
HeartbeatWake(cp, i) ==
    /\ i \in DOMAIN hb[cp] /\ hb[cp][i].pc = "sleep"
    /\ IF ws[cp] = "open"
       THEN /\ beatsLeft > 0
            /\ beatsLeft' = beatsLeft - 1
            /\ hb' = [hb EXCEPT ![cp][i] = [@ EXCEPT !.pc = "await", !.uid = FreshUid(cp),
                                                     !.got = NoGot]]
            /\ SendCall(cp, i, "Heartbeat", HeartbeatPayload, pending[cp], delivered[cp])
       ELSE /\ ws[cp] = "closed"   \* sending on the closed connection raises
            /\ hb' = [hb EXCEPT ![cp][i] = [@ EXCEPT !.pc = "dead"]]
            /\ UNCHANGED <<beatsLeft, pending, nextUid, delivered, toServer>>
    /\ UNCHANGED <<heartbeat_interval, current_transaction_id, rpc, op, nsteps,
                   steplog, listener, ws, srv, toClient, bootState, issued, stepsLeft, faultsLeft>>

\* the listener task (cp.start()) takes the next frame from the connection:
\* onFrameReceived of the engine
OnFrameReceived(cp) ==
    /\ listener[cp] = "running" /\ ws[cp] = "open" /\ toClient[cp] # <<>>
    /\ LET f == Head(toClient[cp])
           kind == IF f.type = "CallResult" THEN "result" ELSE "error"
           got == [kind |-> kind, uid |-> f.uid, action |-> f.action, waiter |-> 0]
       IN IF Match(pending[cp], f.uid) = {}
          THEN \* unmatched response: reported, nothing resolved
               UNCHANGED <<heartbeat_interval, current_transaction_id, rpc, op,
                           steplog, hb, pending, nextUid, delivered, toServer,
                           bootState>>
          ELSE \E e \in Match(pending[cp], f.uid), how \in Surfacings(kind) :
                   Deliver(cp, e, how, got, f.payload)
    /\ toClient' = [toClient EXCEPT ![cp] = Tail(@)]
    /\ UNCHANGED <<nsteps, listener, ws, srv, issued, stepsLeft, beatsLeft, faultsLeft>>

\* expire: a PendingCall older than the response timeout fails with Timeout
Expire(cp) ==
    /\ faultsLeft > 0
    /\ faultsLeft' = faultsLeft - 1
    /\ \E e \in pending[cp] :
          Deliver(cp, e, "raise",
                  [kind |-> "timeout", uid |-> e.uid, action |-> e.action, waiter |-> 0],
                  [empty |-> TRUE])
    /\ UNCHANGED <<nsteps, listener, ws, srv, toClient, issued, stepsLeft, beatsLeft>>

\* the server's ids issued so far, after answering call
IssuedAfter(call) ==
    IF call.action = "StartTransaction"
    THEN Append(issued, Route(call.action, call.payload).transactionId)
    ELSE issued

\* server: cp.start() of on_connect (line 114) routes one Call to its handler
\* and answers with the handler's result
ServerDispatch(cp) ==
    /\ srv[cp] = "listening" /\ toServer[cp] # <<>>
    /\ LET call == Head(toServer[cp])
       IN /\ toServer' = [toServer EXCEPT ![cp] = Tail(@)]
          /\ toClient' = [toClient EXCEPT ![cp] =
                            IF ws[cp] = "open" THEN Append(@, ResultFrame(call)) ELSE @]
          /\ issued' = IssuedAfter(call)
    /\ UNCHANGED <<heartbeat_interval, current_transaction_id, rpc, op, nsteps,
                   steplog, hb, listener, ws, srv, pending, nextUid, delivered,
                   bootState, stepsLeft, beatsLeft, faultsLeft>>

\* server: the router answers a Call with a CallError instead (spec 4.3:
\* FormationViolation, NotImplemented, InternalError); no handler runs
RouterFault(cp) ==
    /\ srv[cp] = "listening" /\ toServer[cp] # <<>> /\ ws[cp] = "open"
    /\ faultsLeft > 0
    /\ faultsLeft' = faultsLeft - 1
    /\ toServer' = [toServer EXCEPT ![cp] = Tail(@)]
    /\ toClient' = [toClient EXCEPT ![cp] = Append(@, ErrorFrame(Head(toServer[cp])))]
    /\ UNCHANGED <<heartbeat_interval, current_transaction_id, rpc, op, nsteps,
                   steplog, hb, listener, ws, srv, pending, nextUid, delivered,
                   bootState, issued, stepsLeft, beatsLeft>>

\* a central system other than server.py answers a BootNotification Call: any
\* registration status, any interval (spec 6, wire format of BootNotification)
CsmsBootResponse(cp) ==
    /\ srv[cp] = "listening" /\ toServer[cp] # <<>> /\ ws[cp] = "open"
    /\ Head(toServer[cp]).action = "BootNotification"
    /\ \E st \in RegistrationStatuses, n \in Intervals :
          toClient' = [toClient EXCEPT ![cp] =
                         Append(@, [type |-> "CallResult", uid |-> Head(toServer[cp]).uid,
                                    action |-> "BootNotification",
                                    payload |-> [status |-> st, interval |-> n]])]
    /\ toServer' = [toServer EXCEPT ![cp] = Tail(@)]
    /\ UNCHANGED <<heartbeat_interval, current_transaction_id, rpc, op, nsteps,
                   steplog, hb, listener, ws, srv, pending, nextUid, delivered,
                   bootState, issued, stepsLeft, beatsLeft, faultsLeft>>

\* closing the connection fails every PendingCall with ConnectionClosed (spec 5)
FailAllPending(cp) ==
    /\ pending' = [pending EXCEPT ![cp] = {}]
    /\ delivered' = [delivered EXCEPT ![cp] =
                       [u \in DOMAIN @ |->
                          IF \E e \in pending[cp] : e.uid = u THEN @[u] + 1 ELSE @[u]]]
    /\ hb' = [hb EXCEPT ![cp] =
                [i \in DOMAIN @ |->
                   IF @[i].pc = "await"
                   THEN HeartbeatAfterCall(@[i], "raise",
                            [kind |-> "closed", uid |-> @[i].uid,
                             action |-> "Heartbeat", waiter |-> @[i].uid],
                            heartbeat_interval[cp])
                   ELSE @[i]]]

\* run_scenario leaves "async with websockets.connect(...)" (lines 21-71), after
\* line 71 or with the exception of a step: the connection is closed
RunnerExit(cp) ==
    /\ rpc[cp] \in {"closing", "failed"}
    /\ rpc' = [rpc EXCEPT ![cp] = "exited"]
    /\ ws' = [ws EXCEPT ![cp] = "closed"]
    /\ listener' = [listener EXCEPT ![cp] = IF @ = "running" THEN "crashed" ELSE @]
    /\ toClient' = [toClient EXCEPT ![cp] = <<>>]
    /\ FailAllPending(cp)
    /\ UNCHANGED <<heartbeat_interval, current_transaction_id, op, nsteps, steplog,
                   srv, nextUid, toServer, bootState, issued, stepsLeft, beatsLeft, faultsLeft>>

\* asyncio.run(run_scenario(...)) (line 80) returns: the tasks still alive are cancelled
Teardown(cp) ==
    /\ rpc[cp] = "exited"
    /\ rpc' = [rpc EXCEPT ![cp] = "terminated"]
    /\ hb' = [hb EXCEPT ![cp] =
                [i \in DOMAIN @ |->
                   IF @[i].pc \in {"sleep", "await"} THEN [@[i] EXCEPT !.pc = "cancelled"]
                   ELSE @[i]]]
    /\ UNCHANGED <<heartbeat_interval, current_transaction_id, op, nsteps, steplog,
                   listener, ws, srv, pending, nextUid, delivered, toServer,
                   toClient, bootState, issued, stepsLeft, beatsLeft, faultsLeft>>

\* what cp.start() of on_connect raises when the connection closes
ClosedWith == {"ConnectionClosedOK", "ConnectionClosedError"}

\* (mutant) only the normal close is caught
on_connect_propagating(exc) ==
    IF exc = "ConnectionClosedOK" THEN "returned" ELSE "raised"

\* on_connect, lines 113-122: each except clause logs, and the handler returns
on_connect(exc) == "returned"

\* server: cp.start() ends with ConnectionClosedOK / ConnectionClosedError, which
\* on_connect catches and logs (lines 113-122)
ServerDisconnect(cp) ==
    /\ srv[cp] = "listening" /\ ws[cp] = "closed" /\ toServer[cp] = <<>>
    /\ \E exc \in ClosedWith : srv' = [srv EXCEPT ![cp] = on_connect(exc)]
    /\ UNCHANGED <<heartbeat_interval, current_transaction_id, rpc, op, nsteps,
                   steplog, hb, listener, ws, pending, nextUid, delivered,
                   toServer, toClient, bootState, issued, stepsLeft, beatsLeft, faultsLeft>>

\* --------------------------------------------------------- specification
\* the charge points in connected have connected: on the server on_connect has
\* built its CentralSystemChargePoint (server.py lines 108-112), on the client
\* ChargePoint(cp_id, ws) is constructed (client.py lines 22-25) and the
\* listener task created (scenario_runner.py line 28)
InitWith(connected, steps, beatCalls, faultCalls) ==
    /\ heartbeat_interval = [cp \in CPs |-> DefaultInterval]
    /\ current_transaction_id = [cp \in CPs |-> None]
    /\ rpc = [cp \in CPs |-> IF cp \in connected THEN "idle" ELSE "absent"]
    /\ op = [cp \in CPs |-> NoOp]
    /\ nsteps = [cp \in CPs |-> 0]
    /\ steplog = [cp \in CPs |-> <<>>]
    /\ hb = [cp \in CPs |-> <<>>]
    /\ listener = [cp \in CPs |-> IF cp \in connected THEN "running" ELSE "absent"]
    /\ ws = [cp \in CPs |-> IF cp \in connected THEN "open" ELSE "absent"]
    /\ srv = [cp \in CPs |-> IF cp \in connected THEN "listening" ELSE "absent"]
    /\ pending = [cp \in CPs |-> {}]
    /\ nextUid = [cp \in CPs |-> 1]
    /\ delivered = [cp \in CPs |-> <<>>]
    /\ toServer = [cp \in CPs |-> <<>>]
    /\ toClient = [cp \in CPs |-> <<>>]
    /\ bootState = [cp \in CPs |-> [status |-> "NotBooted", accepted |-> 0, interval |-> 0]]
    /\ issued = <<>>
    /\ stepsLeft = steps
    /\ beatsLeft = beatCalls
    /\ faultsLeft = faultCalls

\* one charge point runs its scenario
Init == InitWith({"CP_1"}, MaxSteps, MaxBeats, MaxFaults)

\* one charge point runs its scenario, within the bounds of the fair behaviours
InitFair == InitWith({"CP_1"}, FairSteps, FairBeats, FairFaults)

\* two charge points run their scenarios against the one server
InitTwo == InitWith(CPs, TwoSteps, TwoBeats, TwoFaults)

Next ==
    \E cp \in CPs :
        \/ StepBoot(cp)
        \/ StepWait(cp)
        \/ StepStatus(cp)
        \/ StepAuthorize(cp)
        \/ StepStartTransaction(cp)
        \/ StepMeterValues(cp)
        \/ StepStopTransaction(cp)
        \/ StepUnknown(cp)
        \/ ScriptEnd(cp)
        \/ \E i \in 1..MaxSteps : HeartbeatWake(cp, i)
        \/ OnFrameReceived(cp)
        \/ Expire(cp)
        \/ ServerDispatch(cp)
        \/ RouterFault(cp)
        \/ RunnerExit(cp)
        \/ Teardown(cp)
        \/ ServerDisconnect(cp)

Spec == Init /\ [][Next]_vars

SpecTwo == InitTwo /\ [][Next]_vars

\* the session against any central system: the BootNotification may also be
\* answered by a central system that is not server.py
NextAny == Next \/ \E cp \in CPs : CsmsBootResponse(cp)

SpecAny == Init /\ [][NextAny]_vars


\* the scheduling of the event loops: a task that can run does run, a frame in
\* flight is handled, a script comes to its end
FairSpec == InitFair /\ [][Next]_vars /\ WF_vars(Next)

\* ================================================================ claims
IsPending(cp, u) == \E e \in pending[cp] : e.uid = u

\* the outcomes a caller can have had: of the runner's operation, of a heartbeat task
RunnerGot(cp) == op[cp].got
HeartbeatGots(cp) == {hb[cp][i].got : i \in DOMAIN hb[cp]}

\* ---- C1: every Call sent gets exactly one outcome (result, error, timeout or
\* connection-closed failure), eventually, and never a second one: a Call is
\* pending exactly while it has had no outcome, no Call has had two, and no
\* Call stays pending: again and again the session has no Call outstanding.
C1_OneOutcomeEach ==
    \A cp \in CPs : \A u \in DOMAIN delivered[cp] :
        /\ delivered[cp][u] \in {0, 1}
        /\ IsPending(cp, u) <=> delivered[cp][u] = 0

C1_EventuallyResolved == []<>(\A cp \in CPs : pending[cp] = {})

C1_ExactlyOneOutcome == []C1_OneOutcomeEach /\ C1_EventuallyResolved

\* a Call timed out and its late response was then dropped as unmatched
C1_Witness ==
    \E cp \in CPs :
        /\ op[cp].got.kind = "timeout"
        /\ delivered[cp][op[cp].uid] = 1
        /\ rpc[cp] = "failed" /\ ws[cp] = "open" /\ listener[cp] = "running"
        /\ toClient[cp] = <<>> /\ toServer[cp] = <<>> /\ pending[cp] = {}

\* ---- C2: every transactionId the server issues is strictly greater than all
\* it issued before, so two StartTransaction Calls get distinct ids.
C2_TransactionIdsIncrease ==
    \A i, j \in DOMAIN issued : i < j => issued[i] < issued[j]

\* ---- C3: stopTransaction twice in a row on a session with an active
\* transaction: the first call sent one StopTransaction Call and left no current
\* transaction; the second sends no Call and leaves the session as it is.
C3_StopTwice ==
    [][\A cp \in CPs :
          (/\ nsteps'[cp] = nsteps[cp] + 1
           /\ op'[cp].action = "StopTransaction"
           /\ AfterActiveStop(cp))
          => /\ steplog[cp][1].calls = 1
             /\ steplog[cp][1].txAfter = None
             /\ current_transaction_id[cp] = None
             /\ op'[cp].sent = <<>>
             /\ rpc'[cp] = "idle"
             /\ toServer'[cp] = toServer[cp]
             /\ pending'[cp] = pending[cp]
             /\ nextUid'[cp] = nextUid[cp]
             /\ current_transaction_id'[cp] = current_transaction_id[cp]
             /\ heartbeat_interval'[cp] = heartbeat_interval[cp]
             /\ hb'[cp] = hb[cp]]_vars

\* the second of two stop_transaction steps in a row has returned
C3_Witness ==
    \E cp \in CPs :
        /\ op[cp].action = "StopTransaction" /\ op[cp].afterActiveStop
        /\ op[cp].sent = <<>>
        /\ steplog[cp] # <<>> /\ steplog[cp][1].action = "StopTransaction"
        /\ steplog[cp][1].calls = 0
        /\ current_transaction_id[cp] = None

\* ---- C4: a StartTransaction or StopTransaction Call that ends in a CallError
\* or a timeout leaves the session's current transactionId as it was before.
C4_FailureKeepsTransaction ==
    \A cp \in CPs :
        (/\ op[cp].action \in {"StartTransaction", "StopTransaction"}
         /\ op[cp].got.kind \in {"error", "timeout"})
        => current_transaction_id[cp] = op[cp].txAtStart

\* ---- C5: with an active transaction, reportMeterValues sends a MeterValues
\* Call for every sample, also after the Call of an earlier sample failed.
C5_EverySampleSent ==
    \A cp \in CPs :
        (/\ op[cp].action = "MeterValues"
         /\ op[cp].txAtStart # None
         /\ rpc[cp] # "await")
        => Len(op[cp].sent) = Len(op[cp].values)

\* ---- C6: while the connection is open, a heartbeat task whose Heartbeat Call
\* ended in a timeout or an error goes on (it sleeps for the next interval or
\* awaits the next Call).
C6_HeartbeatSurvivesFailure ==
    \A cp \in CPs : \A i \in DOMAIN hb[cp] :
        (ws[cp] = "open" /\ hb[cp][i].got.kind \in {"timeout", "error"})
        => hb[cp][i].pc \in {"sleep", "await"}


\* a Heartbeat Call of cp exists or has existed
HeartbeatSent(cp) ==
    \/ \E i \in DOMAIN hb[cp] : hb[cp][i].uid # 0
    \/ \E e \in pending[cp] : e.action = "Heartbeat"
    \/ \E k \in DOMAIN toServer[cp] : toServer[cp][k].action = "Heartbeat"
    \/ \E k \in DOMAIN toClient[cp] : toClient[cp][k].action = "Heartbeat"

C8_OwnResponse ==
    \A cp \in CPs :
        /\ RunnerGot(cp).kind \in {"result", "error"}
              => /\ RunnerGot(cp).uid = RunnerGot(cp).waiter
                 /\ RunnerGot(cp).action = op[cp].action
        /\ \A g \in HeartbeatGots(cp) :
              g.kind \in {"result", "error"}
              => /\ g.uid = g.waiter
                 /\ g.action = "Heartbeat"

\* a Heartbeat Call and a StartTransaction Call are outstanding together, their
\* two callers await them, and the two responses have reached the session
C8_Witness ==
    \E cp \in CPs : \E i \in DOMAIN hb[cp] :
        /\ hb[cp][i].pc = "await" /\ IsPending(cp, hb[cp][i].uid)
        /\ rpc[cp] = "await" /\ op[cp].action = "StartTransaction"
        /\ IsPending(cp, op[cp].uid)
        /\ Len(toClient[cp]) = 2
        /\ {toClient[cp][1].uid, toClient[cp][2].uid} = {hb[cp][i].uid, op[cp].uid}
        /\ toClient[cp][1].type = "CallResult" /\ toClient[cp][2].type = "CallResult"

\* ---- C9: reportMeterValues sends no Call and changes no session state when no
\* transaction is active, whatever the samples, and sends no Call for an empty
\* sample sequence, transaction or not.
C9_MeterValuesSkips ==
    [][\A cp \in CPs :
          (/\ nsteps'[cp] = nsteps[cp] + 1
           /\ op'[cp].action = "MeterValues"
           /\ (current_transaction_id[cp] = None \/ op'[cp].values = <<>>))
          => /\ op'[cp].sent = <<>>
             /\ rpc'[cp] = "idle"
             /\ toServer'[cp] = toServer[cp]
             /\ pending'[cp] = pending[cp]
             /\ nextUid'[cp] = nextUid[cp]
             /\ current_transaction_id'[cp] = current_transaction_id[cp]
             /\ heartbeat_interval'[cp] = heartbeat_interval[cp]
             /\ hb'[cp] = hb[cp]]_vars

\* meter_values with samples and no transaction has returned, nothing sent
C9_Witness ==
    \E cp \in CPs :
        /\ op[cp].action = "MeterValues"
        /\ op[cp].txAtStart = None /\ Len(op[cp].values) = 2
        /\ op[cp].sent = <<>> /\ rpc[cp] = "idle"
        /\ toServer[cp] = <<>> /\ pending[cp] = {}

\* the runner's Calls that are outstanding
RunnerPending(cp) == {e \in pending[cp] : e.owner = RunnerTask}

\* ---- C10: with transaction T active, reportMeterValues over n samples sends
\* its Calls in sample order, each carrying T, each only after the one before
\* was resolved, and exactly n of them when all succeed.
C10_OneCallPerSample ==
    \A cp \in CPs :
        (op[cp].action = "MeterValues" /\ op[cp].txAtStart # None)
        => /\ Len(op[cp].sent) <= Len(op[cp].values)
           /\ \A k \in DOMAIN op[cp].sent :
                 op[cp].sent[k] = MeterPayload(op[cp].connector, op[cp].txAtStart,
                                               op[cp].values[k])
           /\ Cardinality(RunnerPending(cp)) <= 1
           /\ Len(op[cp].gots) >= Len(op[cp].sent) - 1
           /\ (rpc[cp] = "await") => (Len(op[cp].gots) = Len(op[cp].sent) - 1)
           /\ (rpc[cp] # "await" /\ \A k \in DOMAIN op[cp].gots : op[cp].gots[k] = "result")
                 => Len(op[cp].sent) = Len(op[cp].values)

\* meter_values over two samples has returned, both Calls answered with a result
C10_Witness ==
    \E cp \in CPs :
        /\ op[cp].action = "MeterValues" /\ op[cp].txAtStart = FixedTransactionId
        /\ op[cp].values = <<10, 20>>
        /\ op[cp].gots = <<"result", "result">>
        /\ Len(op[cp].sent) = 2 /\ rpc[cp] = "idle"

\* the heartbeat_loop tasks of cp that are still scheduled
RunningHeartbeats(cp) == {i \in DOMAIN hb[cp] : hb[cp][i].pc \in {"sleep", "await"}}

\* ---- C11: once the connection of a session is closed (also by run_scenario
\* finishing its script), the session's heartbeat task is no longer running.
C11_HeartbeatStopsOnClose ==
    \A cp \in CPs : ws[cp] = "closed" => RunningHeartbeats(cp) = {}

\* ---- C12: the heartbeat period is at least 1 second, for every interval an
\* Accepted BootNotification response can carry, 0 included: a heartbeat task
\* that has sent a Heartbeat Call sleeps at least 1 second before its next one.
C12_HeartbeatPeriodAtLeastOne ==
    \A cp \in CPs : \A i \in DOMAIN hb[cp] :
        (hb[cp][i].uid # 0 /\ hb[cp][i].pc = "sleep") => hb[cp][i].sleep >= 1

\* the answer of a handler is the success answer of its action
IsSuccess(action, payload) ==
    CASE action = "BootNotification"   -> payload.status = "Accepted" /\ payload.interval = 10
      [] action = "Authorize"          -> payload.status = "Accepted"
      [] action = "StartTransaction"   -> payload.status = "Accepted"
      [] action = "StopTransaction"    -> payload.status = "Accepted"
      [] action = "Heartbeat"          -> payload = [currentTime |-> TRUE]
      [] action = "StatusNotification" -> payload = [empty |-> TRUE]
      [] action = "MeterValues"        -> payload = [empty |-> TRUE]

\* ---- C13: no server handler rejects: whatever Calls came before, from
\* whichever charge point, every answer of a handler is a success:
\* BootNotification gets Accepted and interval 10; Authorize, StartTransaction
\* and StopTransaction get status Accepted; Heartbeat, StatusNotification and
\* MeterValues get their acknowledgment.
C13_HandlersAlwaysAccept ==
    \A cp \in CPs : \A k \in DOMAIN toClient[cp] :
        toClient[cp][k].type = "CallResult"
        => /\ toClient[cp][k].action \in Actions
           /\ IsSuccess(toClient[cp][k].action, toClient[cp][k].payload)

\* the server has answered two StartTransaction Calls, the later one of CP_2,
\* whose answer is on its way
C13_Witness ==
    /\ Len(issued) = 2
    /\ nsteps["CP_1"] = 1
    /\ toClient["CP_2"] # <<>>
    /\ Head(toClient["CP_2"]).action = "StartTransaction"
    /\ Head(toClient["CP_2"]).type = "CallResult"

C15_StartOverwrites ==
    [][\A cp \in CPs :
          /\ (/\ nsteps'[cp] = nsteps[cp] + 1
              /\ op'[cp].action = "StartTransaction"
              /\ current_transaction_id[cp] # None)
             => /\ rpc'[cp] = "await"
                /\ Len(op'[cp].sent) = 1
                /\ toServer'[cp] = Append(toServer[cp],
                                          CallFrame(op'[cp].uid, "StartTransaction",
                                                    op'[cp].sent[1]))
                /\ current_transaction_id'[cp] = current_transaction_id[cp]
          /\ (/\ rpc[cp] = "await" /\ rpc'[cp] = "idle"
              /\ op[cp].action = "StartTransaction"
              /\ op[cp].txAtStart # None)
             => /\ current_transaction_id'[cp] = Head(toClient[cp]).payload.transactionId
                /\ toServer'[cp] = toServer[cp]
                /\ Len(op'[cp].sent) = 1]_vars

\* a start_transaction step taken with a transaction active has succeeded
C15_Witness ==
    \E cp \in CPs :
        /\ op[cp].action = "StartTransaction" /\ op[cp].txAtStart = FixedTransactionId
        /\ op[cp].got.kind = "result" /\ rpc[cp] = "idle"
        /\ Len(op[cp].sent) = 1
        /\ current_transaction_id[cp] = FixedTransactionId

\* run_scenario has left its loop, by the end of the script, an exit step or an
\* exception
LoopLeft(cp) == rpc[cp] \in {"closing", "failed", "exited", "terminated"}

C16_OneOutstanding ==
    \A cp \in CPs :
        /\ Cardinality(RunnerPending(cp)) <= 1
        /\ rpc[cp] = "idle" => RunnerPending(cp) = {}

C16_StepByStep ==
    [][\A cp \in CPs :
          /\ nsteps'[cp] = nsteps[cp] + 1
             => /\ rpc[cp] = "idle" /\ RunnerPending(cp) = {}
                /\ op'[cp].sent # <<>>
                   => /\ op'[cp].uid = nextUid[cp]
                      /\ \A e \in pending[cp] : e.uid < op'[cp].uid
                      /\ toServer'[cp] = Append(toServer[cp],
                                                CallFrame(op'[cp].uid, op'[cp].action,
                                                          op'[cp].sent[1]))
                /\ op'[cp].action = "unknown"
                   => /\ op'[cp].sent = <<>> /\ toServer'[cp] = toServer[cp]
                      /\ pending'[cp] = pending[cp] /\ nextUid'[cp] = nextUid[cp]
                      /\ rpc'[cp] = "idle"
          /\ LoopLeft(cp)
             => /\ nsteps'[cp] = nsteps[cp] /\ op'[cp] = op[cp]
                /\ LoopLeft(cp)'
                /\ RunnerPending(cp)' \subseteq RunnerPending(cp)]_vars

\* ---- C16: the scenario runner is a sequential driver: a step starts only when
\* the Call of the step before is resolved, so at most one Call of a step is
\* outstanding; a step's Call is sent in the step, behind every earlier Call;
\* an unknown action sends nothing and leaves the loop running; once the loop
\* is left (exit, end of script, exception) no further step runs.
C16_SequentialDriver == []C16_OneOutstanding /\ C16_StepByStep

\* an authorize step runs after an unknown action, its Call outstanding
C16_Witness ==
    \E cp \in CPs :
        /\ steplog[cp] # <<>> /\ steplog[cp][1].action = "unknown"
        /\ op[cp].action = "Authorize" /\ rpc[cp] = "await"
        /\ nsteps[cp] >= 2
        /\ Cardinality(RunnerPending(cp)) = 1

\* ---- C17: the session's current transactionId is changed only by
\* startTransaction and stopTransaction: a step that changes it is the return
\* of one of these two operations from its Call; boot, the heartbeat loop,
\* setStatus, authorize and reportMeterValues, and every failure that raises,
\* leave it as it is.
C17_OnlyStartAndStopChange ==
    [][\A cp \in CPs :
          /\ current_transaction_id'[cp] # current_transaction_id[cp]
             => /\ op[cp].action \in {"StartTransaction", "StopTransaction"}
                /\ op'[cp].action = op[cp].action
                /\ rpc[cp] = "await" /\ rpc'[cp] = "idle"
          /\ (op'[cp].action \in {"BootNotification", "StatusNotification", "Authorize",
                                  "MeterValues", "wait", "unknown"}
              \/ hb'[cp] # hb[cp])
             => current_transaction_id'[cp] = current_transaction_id[cp]]_vars

\* with a transaction active, a heartbeat was answered and a meter_values step
\* failed with a timeout: the transactionId is still held
C17_Witness ==
    \E cp \in CPs :
        /\ op[cp].action = "MeterValues" /\ op[cp].got.kind = "timeout"
        /\ op[cp].txAtStart = FixedTransactionId
        /\ current_transaction_id[cp] = FixedTransactionId
        /\ \E i \in DOMAIN hb[cp] : hb[cp][i].got.kind = "result"

\* ---- C18: at most one heartbeat task runs per session at any time, also
\* after boot() was called more than once and each BootNotification Accepted.
C18_OneHeartbeatTask ==
    \A cp \in CPs : Cardinality(RunningHeartbeats(cp)) <= 1

\* ---- C19: whenever run_scenario has ended, by the end of the script, by an
\* exit step or by a step whose Call failed, the listener task it created has
\* been cancelled.
C19_ListenerCancelled ==
    \A cp \in CPs : rpc[cp] \in {"exited", "terminated"} => listener[cp] = "cancelled"

=============================================================================
